---- MODULE Spec2Model ----
(***************************************************************************)
(* The process bridge of bridge.py: LetsGoProcess (the Supervisor of one   *)
(* letsgo.py child), the `sessions` registry and the /ws handler that      *)
(* drives them, together with the read-execute-print loop of letsgo.py.    *)
(* The other handlers of bridge.py (POST /run, the Telegram handlers, the   *)
(* /upload WebSocket) are modelled up to their call of run().              *)
(*                                                                         *)
(* Every WebSocket connection is one task (a coroutine of the event loop). *)
(* An action is the code a coroutine runs between two suspension points    *)
(* (await), or one step of a child process.  The Supervisor created by     *)
(* task t is Supervisor t, and its child process is child t.               *)
(*                                                                         *)
(* A byte on a child's stdout is a pair <<character, id>>: id is the       *)
(* number of the run() call whose command made the child print it, 0 for   *)
(* the startup banner and the first prompt.  The id is bookkeeping, the    *)
(* code only sees the character.                                           *)
(***************************************************************************)
EXTENDS Integers, Sequences, FiniteSets, TLC

\* ---- bounds ----
NTask == 2
MaxRuns == 2
MaxPlugins == 2
MaxSpawn == 2
MaxLines == 2
MaxOut == 1
MaxTime == 2
MaxUpload == 6
MaxStream == 5

\* ---- program constants ----
SP == " "
NL == "\n"
PROMPT == <<">", ">">>
PromptBytes == PROMPT \o <<SP>>

Tasks == 1..NTask
Sups == Tasks
Sids == {"s1", "s2"}
NoSup == 0
Cmds == {"/ping", "/run", "exit", ""}

VARIABLES
    pc, sidOf, sup, cmd, rid, buf, start, stale, out, exc,
    sessions, proc, lock, waiters,
    cstate, stdin, cur, wrote, rpos, closed, term,
    nrun, hist,
    plugins, COMMANDS, COMMAND_HANDLERS, COMMAND_MAP, nload,
    lstate, lin, lout, user, uid, handler, colored,
    nproc, nopen, nout, clock, overdue, lclosed, lterm,
    handle, orphans, dpc, dline, dbuf, dpos, dres, dlog, nsent, nspawn,
    now, _last_call, reached, wsconn, upconn, upsize, upfile,
    stream, fed, eof, rd, rbuf, rdone

taskVars == <<pc, sidOf, sup, cmd, rid, buf, start, stale, out, exc>>
supVars == <<sessions, proc, lock, waiters>>
childVars == <<cstate, stdin, cur, wrote, rpos, closed, term>>
bridgeVars == <<pc, sidOf, sup, cmd, rid, buf, start, stale, out, exc,
                sessions, proc, lock, waiters,
                cstate, stdin, cur, wrote, rpos, closed, term, nrun, hist>>

\* one letsgo.py process in full, and the LetsGoProcess that owns it
regVars == <<plugins, COMMANDS, COMMAND_HANDLERS, COMMAND_MAP, nload>>
loopVars == <<lstate, lin, lout, user, uid, handler, colored, lclosed, lterm>>
nestedVars == <<nproc, nopen, nout, clock, overdue>>
apiVars == <<handle, orphans, dpc, dline, dbuf, dpos, dres, dlog, nsent, nspawn>>
termVars == <<regVars, loopVars, nestedVars, apiVars>>

\* the transport adapters of bridge.py, and one framed read on its own
adapterVars == <<now, _last_call, reached, wsconn, upconn, upsize, upfile>>
readVars == <<stream, fed, eof, rd, rbuf, rdone>>
sideVars == <<adapterVars, readVars>>

vars == <<bridgeVars, termVars, sideVars>>

\* ---- text helpers ----
Chars(b) == [i \in 1..Len(b) |-> b[i][1]]

Tagged(text, id) == [i \in 1..Len(text) |-> <<text[i], id>>]

EndsWith(x, suf) ==
    /\ Len(x) >= Len(suf)
    /\ SubSeq(x, Len(x) - Len(suf) + 1, Len(x)) = suf

StartsWith(x, pre) ==
    /\ Len(x) >= Len(pre)
    /\ SubSeq(x, 1, Len(pre)) = pre

IsSpace(c) == c \in {SP, NL}

RECURSIVE LStrip(_)
LStrip(b) ==
    IF b # <<>> /\ IsSpace(b[1][1]) THEN LStrip(Tail(b)) ELSE b

RECURSIVE RStrip(_)
RStrip(b) ==
    IF b # <<>> /\ IsSpace(b[Len(b)][1])
    THEN RStrip(SubSeq(b, 1, Len(b) - 1))
    ELSE b

\* a strip() that trims the left end only
StripLeft(b) == LStrip(b)

\* str.strip()
Strip(b) == RStrip(LStrip(b))


\* a run() that forgets to cut the prompt off
PayloadKeepPrompt(buffer) == Strip(buffer)

\* bridge.py run(), lines 92-97: the text handed back for the bytes in buffer
Payload(buffer) ==
    LET t1 == IF EndsWith(Chars(buffer), PromptBytes)
              THEN SubSeq(buffer, 1, Len(buffer) - Len(PROMPT) - 1)
              ELSE buffer
        t2 == IF StartsWith(Chars(t1), PromptBytes)
              THEN SubSeq(t1, Len(PROMPT) + 2, Len(t1))
              ELSE t1
    IN  Strip(t2)

\* a loop condition that stops at ">>", before the blank that ends the prompt
PromptSeenShort(buffer) == EndsWith(Chars(buffer), PROMPT)

\* the loop condition of _read_until_prompt() and of run()
PromptSeen(buffer) == EndsWith(Chars(buffer), PromptBytes)

\* ---- the child, letsgo.py ----
\* the three header lines printed by main(), cut to one short line
Banner == <<"b", NL>>

\* what main() prints for a line before it prompts again:
\*   /ping  the plugin's reply "pong" (cut to one letter) and print's newline
\*   /run   the lines of `/run echo ">> x"`, cut to the echoed line
Output(c) ==
    CASE c = "/ping" -> <<"p", NL>>
      [] c = "/run"  -> <<">", ">", SP, "x", NL>>
      [] OTHER       -> <<>>

\* main(): `user.strip().lower() in {"exit", "quit"}` ends the loop
IsQuit(c) == c = "exit"

\* main(): `user.split()[0]` raises IndexError on a line without a token
IsBlank(c) == c = ""

\* ---- state ----
NoOut == [kind |-> "none", err |-> "", payload |-> <<>>]
Ok(p) == [kind |-> "ok", err |-> "", payload |-> p]
Raised(e) == [kind |-> "raise", err |-> e, payload |-> <<>>]

\* the unread bytes of child s's stdout
Pipe(s) == SubSeq(wrote[s], rpos[s] + 1, Len(wrote[s]))

BridgeInit ==
    /\ pc = [t \in Tasks |-> "idle"]
    /\ sidOf = [t \in Tasks |-> "s1"]
    /\ sup = [t \in Tasks |-> NoSup]
    /\ cmd = [t \in Tasks |-> ""]
    /\ rid = [t \in Tasks |-> 0]
    /\ buf = [t \in Tasks |-> <<>>]
    /\ start = [t \in Tasks |-> 0]
    /\ stale = [t \in Tasks |-> 0]
    /\ out = [t \in Tasks |-> NoOut]
    /\ exc = [t \in Tasks |-> "none"]
    /\ sessions = [k \in Sids |-> NoSup]
    /\ proc = [s \in Sups |-> FALSE]
    /\ lock = [s \in Sups |-> 0]
    /\ waiters = [s \in Sups |-> <<>>]
    /\ cstate = [s \in Sups |-> "none"]
    /\ stdin = [s \in Sups |-> <<>>]
    /\ cur = [s \in Sups |-> <<"", 0>>]
    /\ wrote = [s \in Sups |-> <<>>]
    /\ rpos = [s \in Sups |-> 0]
    /\ closed = [s \in Sups |-> FALSE]
    /\ term = [s \in Sups |-> FALSE]
    /\ nrun = 0
    /\ hist = [s \in Sups |-> <<>>]

\* ---- LetsGoProcess.stop() and the finally block of websocket_endpoint ----
\* Runs from the point an exception e (or "none") leaves the try block up to
\* the first suspension: stop() as far as `await self.proc.wait()`, or, when
\* stop() returns or raises at once, through `sessions.pop(sid, None)`.
\* The handler's locals are dead from here on; out keeps the error of run().
\* terminate() raises ProcessLookupError for a child whose exit the event
\* loop has already seen (tests/test_bridge.py, _DummyProcess).
Finally(t, e) ==
    LET s == sup[t] IN
    /\ UNCHANGED proc
    /\ out' = [out EXCEPT ![t] = IF e = "none" THEN NoOut ELSE Raised(e)]
    /\ cmd' = [cmd EXCEPT ![t] = ""]
    /\ rid' = [rid EXCEPT ![t] = 0]
    /\ buf' = [buf EXCEPT ![t] = <<>>]
    /\ start' = [start EXCEPT ![t] = 0]
    /\ stale' = [stale EXCEPT ![t] = 0]
    /\ IF ~proc[s]
       THEN /\ pc' = [pc EXCEPT ![t] = "done"]
            /\ exc' = [exc EXCEPT ![t] = e]
            /\ sessions' = [sessions EXCEPT ![sidOf[t]] = NoSup]
            /\ UNCHANGED <<closed, term>>
       ELSE IF cstate[s] = "exited"
       THEN /\ pc' = [pc EXCEPT ![t] = "done"]
            /\ exc' = [exc EXCEPT ![t] = "ProcessLookupError"]
            /\ closed' = [closed EXCEPT ![s] = TRUE]
            /\ UNCHANGED <<sessions, term>>
       ELSE /\ pc' = [pc EXCEPT ![t] = "stopwait"]
            /\ exc' = [exc EXCEPT ![t] = e]
            /\ closed' = [closed EXCEPT ![s] = TRUE]
            /\ term' = [term EXCEPT ![s] = TRUE]
            /\ UNCHANGED sessions

\* stop(): `await self.proc.wait()` returns, `self.proc = None`; then the
\* handler's `sessions.pop(sid, None)`
StopWaitDone(t) ==
    LET s == sup[t] IN
    /\ pc[t] = "stopwait"
    /\ cstate[s] = "exited"
    /\ proc' = [proc EXCEPT ![s] = FALSE]
    /\ sessions' = [sessions EXCEPT ![sidOf[t]] = NoSup]
    /\ pc' = [pc EXCEPT ![t] = "done"]
    /\ UNCHANGED <<sidOf, sup, cmd, rid, buf, start, stale, out, exc, lock, waiters,
                   childVars, nrun, hist>>
    /\ UNCHANGED <<termVars, sideVars>>


\* ---- LetsGoProcess.run() ----
\* hist[s] records, for Supervisor s, the events <<kind, call, command>> in the
\* order they happen: "acq" the call takes the lock, "wr" its command is
\* written to stdin, "ex" the child reads that line, "ret" the call leaves
\* the lock; and <<"q", task, command>>: the task joins the queue of the
\* lock.  Nothing in the program reads it.
Event(s, evs) == [hist EXCEPT ![s] = @ \o evs]

\* how many run() calls have taken the lock of Supervisor s so far; the
\* next one to take it is call number Acquired(s) + 1 of that Supervisor
Acquired(s) == Cardinality({i \in 1..Len(hist[s]) : hist[s][i][1] = "acq"})

\* run() from the moment the lock is taken (line 82) to its first suspension.
\* wq is the queue of waiters left behind.  Writing to a stdin that stop()
\* has closed, or whose reader has exited, makes drain() raise
\* ConnectionResetError; `self.proc.stdin` on a handle that stop() cleared
\* while the caller waited for the lock raises AttributeError.  Either way
\* `async with` releases the lock and the finally block of the handler runs.
WriteCommand(t, c, wq) ==
    LET s == sup[t]
        id == Acquired(s) + 1
        e == IF ~proc[s] THEN "AttributeError" ELSE "ConnectionResetError"
    IN
    IF ~proc[s] \/ closed[s] \/ cstate[s] = "exited"
    THEN /\ lock' = [lock EXCEPT ![s] = 0]
         /\ waiters' = [waiters EXCEPT ![s] = wq]
         /\ hist' = Event(s, << <<"acq", id, c>>, <<"ret", id, c>> >>)
         /\ Finally(t, e)
         /\ UNCHANGED stdin
    ELSE /\ lock' = [lock EXCEPT ![s] = t]
         /\ waiters' = [waiters EXCEPT ![s] = wq]
         /\ stdin' = [stdin EXCEPT ![s] = Append(@, <<c, id>>)]
         /\ cmd' = [cmd EXCEPT ![t] = c]
         /\ rid' = [rid EXCEPT ![t] = id]
         /\ buf' = [buf EXCEPT ![t] = <<>>]
         /\ start' = [start EXCEPT ![t] = rpos[s]]
         /\ stale' = [stale EXCEPT ![t] = Len(Pipe(s))]
         /\ out' = [out EXCEPT ![t] = NoOut]
         /\ pc' = [pc EXCEPT ![t] = "read"]
         /\ hist' = Event(s, << <<"acq", id, c>>, <<"wr", id, c>> >>)
         /\ UNCHANGED <<exc, sessions, proc, closed, term>>

\* a lock that never makes a caller wait
LockFreeAlways(s) == TRUE

\* asyncio.Lock.acquire() takes a free lock at once only when nobody waits
LockFree(s) == lock[s] = 0 /\ waiters[s] = <<>>

\* a check that lets every call through
NotStartedNever(s) == FALSE

\* run(), line 80: `if not self.proc or ...: raise RuntimeError`
NotStarted(s) == ~proc[s]

\* websocket_endpoint: receive_text() yields c, then `proc.run(c)` up to its
\* first suspension
Receive(t, c) ==
    LET s == sup[t] IN
    /\ pc[t] = "recv"
    /\ nrun < MaxRuns
    /\ nrun' = nrun + 1
    /\ UNCHANGED <<sidOf, sup, cstate, cur, wrote, rpos>>
    /\ IF NotStarted(s)
       THEN /\ Finally(t, "RuntimeError")
            /\ UNCHANGED <<lock, waiters, stdin, hist>>
       ELSE IF LockFree(s)
       THEN WriteCommand(t, c, waiters[s])
       ELSE /\ waiters' = [waiters EXCEPT ![s] = Append(@, t)]
            /\ pc' = [pc EXCEPT ![t] = "waitlock"]
            /\ cmd' = [cmd EXCEPT ![t] = c]
            /\ out' = [out EXCEPT ![t] = NoOut]
            /\ hist' = Event(s, << <<"q", t, c>> >>)
            /\ UNCHANGED <<rid, buf, start, stale, exc, sessions, proc, lock,
                           stdin, closed, term>>
    /\ UNCHANGED <<termVars, sideVars>>

\* a waiter that resumes although the lock is still held
WakeLockEarly(t) ==
    LET s == sup[t] IN
    /\ pc[t] = "waitlock"
    /\ waiters[s] # <<>>
    /\ Head(waiters[s]) = t
    /\ WriteCommand(t, cmd[t], Tail(waiters[s]))
    /\ UNCHANGED <<sidOf, sup, cstate, cur, wrote, rpos, nrun>>
    /\ UNCHANGED <<termVars, sideVars>>

\* the first waiter of a released lock resumes inside `async with`
WakeLock(t) ==
    LET s == sup[t] IN
    /\ pc[t] = "waitlock"
    /\ lock[s] = 0
    /\ waiters[s] # <<>>
    /\ Head(waiters[s]) = t
    /\ WriteCommand(t, cmd[t], Tail(waiters[s]))
    /\ UNCHANGED <<sidOf, sup, cstate, cur, wrote, rpos, nrun>>
    /\ UNCHANGED <<termVars, sideVars>>

\* a run() that returns without releasing the lock
ReturnHoldsLock(t, buffer) ==
    LET s == sup[t] IN
    /\ out' = [out EXCEPT ![t] = Ok(Payload(buffer))]
    /\ lock' = lock
    /\ pc' = [pc EXCEPT ![t] = "send"]
    /\ hist' = Event(s, << <<"ret", rid[t], cmd[t]>> >>)

\* run() leaves `async with` with the text of its buffer
Return(t, buffer) ==
    LET s == sup[t] IN
    /\ out' = [out EXCEPT ![t] = Ok(Payload(buffer))]
    /\ lock' = [lock EXCEPT ![s] = 0]
    /\ pc' = [pc EXCEPT ![t] = "send"]
    /\ hist' = Event(s, << <<"ret", rid[t], cmd[t]>> >>)

\* a loop on read(n) in place of read(1): it takes whatever the stream holds
ReadLoopGreedy(buffer, avail) ==
    IF PromptSeen(buffer) THEN <<buffer, avail>> ELSE <<buffer \o avail, <<>>>>

\* The loop of lines 73-77 and 87-91 over the bytes avail that the stream
\* already holds: StreamReader.read(1) hands out a buffered byte without
\* suspending, so the loop runs on until the buffer ends with the prompt or
\* the stream is empty.  Yields <<buffer, bytes left in the stream>>.
RECURSIVE ReadLoop(_, _)
ReadLoop(buffer, avail) ==
    IF PromptSeen(buffer) \/ avail = <<>>
    THEN <<buffer, avail>>
    ELSE ReadLoop(Append(buffer, Head(avail)), Tail(avail))

\* run(): the child's output has arrived, the read loop resumes
ReadAvail(t) ==
    LET s == sup[t]
        r == ReadLoop(buf[t], Pipe(s))
    IN
    /\ pc[t] = "read"
    /\ Pipe(s) # <<>>
    /\ rpos' = [rpos EXCEPT ![s] = Len(wrote[s]) - Len(r[2])]
    /\ buf' = [buf EXCEPT ![t] = r[1]]
    /\ IF PromptSeen(r[1])
       THEN Return(t, r[1])
       ELSE UNCHANGED <<out, lock, pc, hist>>
    /\ UNCHANGED <<sidOf, sup, cmd, rid, start, stale, exc, sessions, proc,
                   waiters, cstate, stdin, cur, wrote, closed, term, nrun>>
    /\ UNCHANGED <<termVars, sideVars>>

\* a run() that drops what it has read when the stream ends
ReadEOFDiscard(t) ==
    LET s == sup[t] IN
    /\ pc[t] = "read"
    /\ Pipe(s) = <<>>
    /\ cstate[s] = "exited"
    /\ Return(t, <<>>)
    /\ UNCHANGED <<sidOf, sup, cmd, rid, buf, start, stale, exc, sessions, proc,
                   waiters, childVars, nrun>>
    /\ UNCHANGED <<termVars, sideVars>>

\* a read that holds up the event loop: it sees the end of its stream only
\* when no other coroutine is in a read of its own
ReadEOFBlocking(t) ==
    LET s == sup[t] IN
    /\ pc[t] = "read"
    /\ \A u \in Tasks \ {t} : pc[u] # "read"
    /\ Pipe(s) = <<>>
    /\ cstate[s] = "exited"
    /\ Return(t, buf[t])
    /\ UNCHANGED <<sidOf, sup, cmd, rid, buf, start, stale, exc, sessions, proc,
                   waiters, childVars, nrun>>
    /\ UNCHANGED <<termVars, sideVars>>

\* a read loop without `if not chunk: break`: at the end of the stream it
\* goes round for ever
ReadEOFSpins(t) ==
    LET s == sup[t] IN
    /\ pc[t] = "read"
    /\ Pipe(s) = <<>>
    /\ cstate[s] = "exited"
    /\ UNCHANGED vars

\* read(1) yields b"" once the child is gone and its output is used up
ReadEOF(t) ==
    LET s == sup[t] IN
    /\ pc[t] = "read"
    /\ Pipe(s) = <<>>
    /\ cstate[s] = "exited"
    /\ Return(t, buf[t])
    /\ UNCHANGED <<sidOf, sup, cmd, rid, buf, start, stale, exc, sessions, proc,
                   waiters, childVars, nrun>>
    /\ UNCHANGED <<termVars, sideVars>>

\* websocket_endpoint: send_text(output) goes through, back to receive_text()
SendOk(t) ==
    /\ pc[t] = "send"
    /\ pc' = [pc EXCEPT ![t] = "recv"]
    /\ out' = [out EXCEPT ![t] = NoOut]
    /\ cmd' = [cmd EXCEPT ![t] = ""]
    /\ rid' = [rid EXCEPT ![t] = 0]
    /\ buf' = [buf EXCEPT ![t] = <<>>]
    /\ start' = [start EXCEPT ![t] = 0]
    /\ stale' = [stale EXCEPT ![t] = 0]
    /\ UNCHANGED <<sidOf, sup, exc, supVars,
                   childVars, nrun, hist>>
    /\ UNCHANGED <<termVars, sideVars>>

\* send_text(output) raises: the client is gone
SendFail(t) ==
    /\ pc[t] = "send"
    /\ Finally(t, "none")
    /\ UNCHANGED <<sidOf, sup, lock, waiters, cstate, stdin, cur, wrote, rpos,
                   nrun, hist>>
    /\ UNCHANGED <<termVars, sideVars>>

\* The task of the connection is cancelled while run() is suspended.  In
\* read(1): `async with` releases the lock as CancelledError passes.  In
\* Lock.acquire(): the waiter leaves the queue, the lock was never taken.
\* CancelledError is no WebSocketDisconnect: the finally block of the handler
\* runs and the error goes on.
CancelRun(t) ==
    LET s == sup[t] IN
    /\ pc[t] \in {"read", "waitlock"}
    /\ IF pc[t] = "read"
       THEN /\ lock' = [lock EXCEPT ![s] = 0]
            /\ hist' = Event(s, << <<"ret", rid[t], cmd[t]>> >>)
            /\ UNCHANGED waiters
       ELSE /\ waiters' = [waiters EXCEPT ![s] = SelectSeq(@, LAMBDA u : u # t)]
            /\ UNCHANGED <<lock, hist>>
    /\ Finally(t, "CancelledError")
    /\ UNCHANGED <<sidOf, sup, cstate, stdin, cur, wrote, rpos, nrun>>
    /\ UNCHANGED <<termVars, sideVars>>

\* receive_text() raises WebSocketDisconnect
Disconnect(t) ==
    /\ pc[t] = "recv"
    /\ Finally(t, "none")
    /\ UNCHANGED <<sidOf, sup, lock, waiters, cstate, stdin, cur, wrote, rpos,
                   nrun, hist>>
    /\ UNCHANGED <<termVars, sideVars>>


\* ---- websocket_endpoint, lines 145-155, and LetsGoProcess.start() ----
\* A bad token or a missing sid closes the socket.  `sessions.get(sid)`: a
\* LetsGoProcess found there is used as it is (the object is always truthy);
\* otherwise a new one is made and start() suspends in
\* create_subprocess_exec().  Connections are numbered in the order in which
\* they open: task t is the t-th one.
Connect(t, k, tokenOk) ==
    /\ pc[t] = "idle"
    /\ \A u \in Tasks : u < t => pc[u] # "idle"
    /\ IF ~tokenOk
       THEN /\ pc' = [pc EXCEPT ![t] = "done"]
            /\ UNCHANGED <<sidOf, sup>>
       ELSE IF sessions[k] # NoSup
       THEN /\ sidOf' = [sidOf EXCEPT ![t] = k]
            /\ sup' = [sup EXCEPT ![t] = sessions[k]]
            /\ pc' = [pc EXCEPT ![t] = "recv"]
       ELSE /\ sidOf' = [sidOf EXCEPT ![t] = k]
            /\ sup' = [sup EXCEPT ![t] = t]
            /\ pc' = [pc EXCEPT ![t] = "spawn"]
    /\ UNCHANGED <<cmd, rid, buf, start, stale, out, exc, supVars, childVars,
                   nrun, hist>>
    /\ UNCHANGED <<termVars, sideVars>>

\* a start() whose Supervisor is in the registry before the drain is over
SpawnOkRegistered(t) ==
    /\ pc[t] = "spawn"
    /\ proc' = [proc EXCEPT ![t] = TRUE]
    /\ cstate' = [cstate EXCEPT ![t] = "boot"]
    /\ buf' = [buf EXCEPT ![t] = <<>>]
    /\ pc' = [pc EXCEPT ![t] = "drain"]
    /\ sessions' = [sessions EXCEPT ![sidOf[t]] = t]
    /\ UNCHANGED <<sidOf, sup, cmd, rid, start, stale, out, exc, lock,
                   waiters, stdin, cur, wrote, rpos, closed, term, nrun, hist>>
    /\ UNCHANGED <<termVars, sideVars>>

\* start(): the child exists, `self.proc` is set, the drain begins
SpawnOk(t) ==
    /\ pc[t] = "spawn"
    /\ proc' = [proc EXCEPT ![t] = TRUE]
    /\ cstate' = [cstate EXCEPT ![t] = "boot"]
    /\ buf' = [buf EXCEPT ![t] = <<>>]
    /\ pc' = [pc EXCEPT ![t] = "drain"]
    /\ UNCHANGED <<sidOf, sup, cmd, rid, start, stale, out, exc, sessions, lock,
                   waiters, stdin, cur, wrote, rpos, closed, term, nrun, hist>>
    /\ UNCHANGED <<termVars, sideVars>>

\* start(): create_subprocess_exec() raises, the handler ends before `try`
SpawnFail(t) ==
    /\ pc[t] = "spawn"
    /\ exc' = [exc EXCEPT ![t] = "OSError"]
    /\ pc' = [pc EXCEPT ![t] = "done"]
    /\ UNCHANGED <<sidOf, sup, cmd, rid, buf, start, stale, out, supVars,
                   childVars, nrun, hist>>
    /\ UNCHANGED <<termVars, sideVars>>

\* start() has returned: `sessions[sid] = proc`, then accept()
Registered(t) ==
    /\ sessions' = [sessions EXCEPT ![sidOf[t]] = sup[t]]
    /\ pc' = [pc EXCEPT ![t] = "recv"]

\* _read_until_prompt(): the child's output has arrived
DrainAvail(t) ==
    LET s == sup[t]
        r == ReadLoop(buf[t], Pipe(s))
    IN
    /\ pc[t] = "drain"
    /\ Pipe(s) # <<>>
    /\ rpos' = [rpos EXCEPT ![s] = Len(wrote[s]) - Len(r[2])]
    /\ buf' = [buf EXCEPT ![t] = r[1]]
    /\ IF PromptSeen(r[1])
       THEN Registered(t)
       ELSE UNCHANGED <<sessions, pc>>
    /\ UNCHANGED <<sidOf, sup, cmd, rid, start, stale, out, exc, proc, lock,
                   waiters, cstate, stdin, cur, wrote, closed, term, nrun, hist>>
    /\ UNCHANGED <<termVars, sideVars>>

\* _read_until_prompt(): read(1) yields b"", the loop breaks
DrainEOF(t) ==
    LET s == sup[t] IN
    /\ pc[t] = "drain"
    /\ Pipe(s) = <<>>
    /\ cstate[s] = "exited"
    /\ Registered(t)
    /\ UNCHANGED <<sidOf, sup, cmd, rid, buf, start, stale, out, exc, proc, lock,
                   waiters, childVars, nrun, hist>>
    /\ UNCHANGED <<termVars, sideVars>>

\* ---- letsgo.py main() ----
Emit(s, bytes) == [wrote EXCEPT ![s] = @ \o bytes]

\* the header, then input(prompt) writes the first prompt
ChildBoot(s) ==
    /\ cstate[s] = "boot"
    /\ wrote' = Emit(s, Tagged(Banner \o PromptBytes, 0))
    /\ cstate' = [cstate EXCEPT ![s] = "idle"]
    /\ UNCHANGED <<taskVars, supVars, stdin, cur, rpos, closed, term, nrun, hist>>
    /\ UNCHANGED <<termVars, sideVars>>

\* _ensure_log_dir() raises SystemExit(1) before anything is printed
ChildBootFail(s) ==
    /\ cstate[s] = "boot"
    /\ cstate' = [cstate EXCEPT ![s] = "exited"]
    /\ UNCHANGED <<taskVars, supVars, stdin, cur, wrote, rpos, closed, term,
                   nrun, hist>>
    /\ UNCHANGED <<termVars, sideVars>>

\* input() returns the next line of stdin
ChildTake(s) ==
    /\ cstate[s] = "idle"
    /\ stdin[s] # <<>>
    /\ cur' = [cur EXCEPT ![s] = Head(stdin[s])]
    /\ stdin' = [stdin EXCEPT ![s] = Tail(@)]
    /\ cstate' = [cstate EXCEPT ![s] = "exec"]
    /\ hist' = Event(s, << <<"ex", Head(stdin[s])[2], Head(stdin[s])[1]>> >>)
    /\ UNCHANGED <<taskVars, supVars, wrote, rpos, closed, term, nrun>>
    /\ UNCHANGED <<termVars, sideVars>>

\* `print(colored)`: the handler's text goes to stdout.  The prompt follows
\* with the next input().  The text reaches the pipe ahead of the prompt when
\* stdout is unbuffered (PYTHONUNBUFFERED) or its block buffer fills; a
\* reader, or the end of the child, can then come between the two.
ChildRespond(s) ==
    /\ cstate[s] = "exec"
    /\ ~IsQuit(cur[s][1])
    /\ ~IsBlank(cur[s][1])
    /\ wrote' = Emit(s, Tagged(Output(cur[s][1]), cur[s][2]))
    /\ cstate' = [cstate EXCEPT ![s] = "resp"]
    /\ UNCHANGED <<taskVars, supVars, stdin, cur, rpos, closed, term, nrun, hist>>
    /\ UNCHANGED <<termVars, sideVars>>

\* back at the top of the loop, input(prompt) writes the prompt
ChildPrompt(s) ==
    /\ cstate[s] = "resp"
    /\ wrote' = Emit(s, Tagged(PromptBytes, cur[s][2]))
    /\ cstate' = [cstate EXCEPT ![s] = "idle"]
    /\ UNCHANGED <<taskVars, supVars, stdin, cur, rpos, closed, term, nrun, hist>>
    /\ UNCHANGED <<termVars, sideVars>>

\* exit/quit leaves the loop; a line without a token raises IndexError
ChildQuit(s) ==
    /\ cstate[s] = "exec"
    /\ IsQuit(cur[s][1]) \/ IsBlank(cur[s][1])
    /\ cstate' = [cstate EXCEPT ![s] = "exited"]
    /\ stdin' = [stdin EXCEPT ![s] = <<>>]
    /\ UNCHANGED <<taskVars, supVars, cur, wrote, rpos, closed, term, nrun, hist>>
    /\ UNCHANGED <<termVars, sideVars>>

\* the child dies of the signal stop() sent (or of the EOF on its stdin)
ChildTerminate(s) ==
    /\ cstate[s] \in {"boot", "idle", "exec", "resp"}
    /\ term[s]
    /\ cstate' = [cstate EXCEPT ![s] = "exited"]
    /\ stdin' = [stdin EXCEPT ![s] = <<>>]
    /\ UNCHANGED <<taskVars, supVars, cur, wrote, rpos, closed, term, nrun, hist>>
    /\ UNCHANGED <<termVars, sideVars>>

\* ==== one letsgo.py process in full ====
\* A Supervisor (LetsGoProcess) used by a single caller that makes one call
\* at a time: start(), run(line), stop() in any order.  The child it owns is
\* modelled step by step: registration of the commands, the loop of main(),
\* the nested process of /run and its deadline.  Lines and texts are
\* sequences of characters.

\* ---- text of lines ----
UpperCase == <<"A", "B", "C", "D", "E", "F", "G", "H", "I", "J", "K", "L", "M",
               "N", "O", "P", "Q", "R", "S", "T", "U", "V", "W", "X", "Y", "Z">>
LowerCase == <<"a", "b", "c", "d", "e", "f", "g", "h", "i", "j", "k", "l", "m",
               "n", "o", "p", "q", "r", "s", "t", "u", "v", "w", "x", "y", "z">>

\* str.lower()
LowerChar(c) ==
    IF \E i \in 1..Len(UpperCase) : UpperCase[i] = c
    THEN LowerCase[CHOOSE i \in 1..Len(UpperCase) : UpperCase[i] = c]
    ELSE c
Lower(line) == [i \in 1..Len(line) |-> LowerChar(line[i])]

\* str.strip()
RECURSIVE LStripText(_)
LStripText(line) ==
    IF line # <<>> /\ IsSpace(line[1]) THEN LStripText(Tail(line)) ELSE line

RECURSIVE RStripText(_)
RStripText(line) ==
    IF line # <<>> /\ IsSpace(line[Len(line)])
    THEN RStripText(SubSeq(line, 1, Len(line) - 1))
    ELSE line

StripText(line) == RStripText(LStripText(line))

\* the leading characters of line up to the first white space
RECURSIVE Word(_)
Word(line) ==
    IF line = <<>> \/ IsSpace(line[1]) THEN <<>> ELSE <<line[1]>> \o Word(Tail(line))

\* a lookup by the line as it stands
WholeLine(line) == line

\* main(): `user.split()[0]`, for a line that holds a token
FirstToken(line) == Word(LStripText(line))

\* main(): `user.split()` is empty, `[0]` raises IndexError
NoToken(line) == LStripText(line) = <<>>

\* a test for the bare lower-case words only
QuitsExact(line) == line \in {<<"e", "x", "i", "t">>, <<"q", "u", "i", "t">>}

\* main(): `user.strip().lower() in {"exit", "quit"}`
Quits(line) ==
    Lower(StripText(line)) \in {<<"e", "x", "i", "t">>, <<"q", "u", "i", "t">>}

\* ---- the commands ----
N_status == <<"/", "s", "t", "a", "t", "u", "s">>
N_time == <<"/", "t", "i", "m", "e">>
N_run == <<"/", "r", "u", "n">>
N_summarize == <<"/", "s", "u", "m", "m", "a", "r", "i", "z", "e">>
N_clear == <<"/", "c", "l", "e", "a", "r">>
N_history == <<"/", "h", "i", "s", "t", "o", "r", "y">>
N_help == <<"/", "h", "e", "l", "p">>
N_search == <<"/", "s", "e", "a", "r", "c", "h">>
N_ping == <<"/", "p", "i", "n", "g">>

\* register_core(): the names of core_commands in the order of the dict
CoreNames == <<N_status, N_time, N_run, N_summarize, N_clear, N_history,
               N_help, N_search>>

CoreHandler(n) ==
    CASE n = N_status -> "handle_status"
      [] n = N_time -> "handle_time"
      [] n = N_run -> "handle_run"
      [] n = N_summarize -> "handle_summarize"
      [] n = N_clear -> "handle_clear"
      [] n = N_history -> "handle_history"
      [] n = N_help -> "handle_help"
      [] n = N_search -> "handle_search"
      [] OTHER -> "none"

Range(f) == {f[i] : i \in DOMAIN f}

\* every name a registration can use
Names == Range(CoreNames) \cup {N_ping}

\* The modules pkgutil.iter_modules() can find in plugins/:
\*   "ping"    plugins/ping.py
\*   "shadow"  a module whose register() does for "/help" what ping.py does
\*             for "/ping"
\*   "broken"  a module that raises when it is imported
PluginMods == {"ping", "shadow", "broken"}

ImportRaises(m) == m = "broken"
PluginName(m) == IF m = "ping" THEN N_ping ELSE N_help
PluginHandler(m) == IF m = "ping" THEN "_ping" ELSE "_shadow"

\* the directories tried: up to MaxPlugins different modules, in any order
PluginDirs ==
    {d \in UNION {[1..n -> PluginMods] : n \in 0..MaxPlugins} :
        \A i, j \in DOMAIN d : i # j => d[i] # d[j]}

\* ---- texts printed ----
\* "pong"
Pong == <<"p", "o", "n", "g">>
\* "Unknown command: {base}. Try /help for guidance.", cut short
UnknownText(base) == <<"U", ":">> \o base
\* "command timed out"
TimedOut == <<"t", "/", "o">>
\* "...running", the first line handle_run() prints
Running == <<".", ".", ".">>
\* a line of output of the nested process
OutLine == <<"h">>

\* run_command(): the deadline of the nested process, in seconds
Deadline == 10

None == [none |-> TRUE, text |-> <<>>]
Some(text) == [none |-> FALSE, text |-> text]

\* ---- state of the process and of its Supervisor ----
NoHandlers == [n \in Names |-> "none"]

\* nothing spawned yet; p is what plugins/ holds
TermStart(p) ==
    /\ plugins = p
    /\ COMMANDS = <<>>
    /\ COMMAND_HANDLERS = NoHandlers
    /\ COMMAND_MAP = NoHandlers
    /\ nload = 0
    /\ lstate = "none"
    /\ lin = <<>>
    /\ lout = <<>>
    /\ user = <<>>
    /\ uid = 0
    /\ handler = "none"
    /\ colored = None
    /\ nproc = "none"
    /\ nopen = FALSE
    /\ nout = 0
    /\ clock = 0
    /\ overdue = FALSE
    /\ lclosed = FALSE
    /\ lterm = FALSE
    /\ handle = FALSE
    /\ orphans = 0
    /\ dpc = "idle"
    /\ dline = <<>>
    /\ dbuf = <<>>
    /\ dpos = 0
    /\ dres = NoOut
    /\ dlog = <<>>
    /\ nsent = 0
    /\ nspawn = 0

Alive == lstate \notin {"none", "exited"}

\* the unread bytes of the child's stdout
Unread == SubSeq(lout, dpos + 1, Len(lout))

Say(text, id) == lout \o Tagged(text, id)

\* ---- letsgo.py: startup ----
\* main(), lines 388-390: both tables are emptied, then register_core()
TermRegisterCore ==
    /\ lstate = "boot"
    /\ COMMANDS' = CoreNames
    /\ COMMAND_HANDLERS' = [n \in Names |-> CoreHandler(n)]
    /\ COMMAND_MAP' = [n \in Names |-> CoreHandler(n)]
    /\ nload' = 1
    /\ lstate' = "load"
    /\ UNCHANGED <<plugins, lin, lout, user, uid, handler, colored, lclosed, lterm,
                   nestedVars, apiVars, bridgeVars, sideVars>>

\* _load_plugins(): the next module is imported and its register() called.
\* An exception of import_module() is caught nowhere: it ends main().
TermLoadPlugin ==
    /\ lstate = "load"
    /\ nload <= Len(plugins)
    /\ LET m == plugins[nload] IN
       IF ImportRaises(m)
       THEN /\ lstate' = "exited"
            /\ UNCHANGED <<COMMANDS, COMMAND_HANDLERS, nload>>
       ELSE /\ COMMANDS' = Append(COMMANDS, PluginName(m))
            /\ COMMAND_HANDLERS' =
                   [COMMAND_HANDLERS EXCEPT ![PluginName(m)] = PluginHandler(m)]
            /\ nload' = nload + 1
            /\ UNCHANGED lstate
    /\ UNCHANGED <<plugins, COMMAND_MAP, lin, lout, user, uid, handler, colored,
                   lclosed, lterm, nestedVars, apiVars, bridgeVars, sideVars>>

\* main(), lines 418-423: the header lines
TermHeader ==
    /\ lstate = "load"
    /\ nload > Len(plugins)
    /\ lout' = Say(Banner, 0)
    /\ lstate' = "input"
    /\ UNCHANGED <<regVars, lin, user, uid, handler, colored, lclosed, lterm,
                   nestedVars, apiVars, bridgeVars, sideVars>>

\* ---- letsgo.py: the loop ----
\* input(prompt) writes the prompt and waits for a line
TermPrompt ==
    /\ lstate = "input"
    /\ lout' = Say(PromptBytes, uid)
    /\ lstate' = "idle"
    /\ UNCHANGED <<regVars, lin, user, uid, handler, colored, lclosed, lterm,
                   nestedVars, apiVars, bridgeVars, sideVars>>

\* input() returns the next line
TermTake ==
    /\ lstate = "idle"
    /\ lin # <<>>
    /\ user' = Head(lin)[1]
    /\ uid' = Head(lin)[2]
    /\ lin' = Tail(lin)
    /\ lstate' = "line"
    /\ UNCHANGED <<regVars, lout, handler, colored, lclosed, lterm,
                   nestedVars, apiVars, bridgeVars, sideVars>>

\* line 429: exit or quit, `break`
TermQuit ==
    /\ lstate = "line"
    /\ Quits(user)
    /\ lstate' = "exited"
    /\ UNCHANGED <<regVars, lin, lout, user, uid, handler, colored, lclosed, lterm,
                   nestedVars, apiVars, bridgeVars, sideVars>>

\* line 432: `user.split()[0]` raises IndexError, main() ends
TermNoToken ==
    /\ lstate = "line"
    /\ ~Quits(user)
    /\ NoToken(user)
    /\ lstate' = "exited"
    /\ UNCHANGED <<regVars, lin, lout, user, uid, handler, colored, lclosed, lterm,
                   nestedVars, apiVars, bridgeVars, sideVars>>

\* the (reply, colored) of the handlers that return at once; with --no-color
\* the text printed is the reply
Reply(h, base) ==
    CASE h = "none" -> Some(UnknownText(base))
      [] h = "_ping" -> Some(Pong)
      [] h = "handle_clear" -> None
      [] OTHER -> Some(<<"r">>)

\* lines 432-438: the handler of the first token is looked up and called.
\* handle_run() prints "...running" and starts the nested process.
TermDispatch ==
    /\ lstate = "line"
    /\ ~Quits(user)
    /\ ~NoToken(user)
    /\ LET base == FirstToken(user)
           h == IF base \in Names THEN COMMAND_HANDLERS[base] ELSE "none"
       IN
       /\ handler' = h
       /\ IF h = "handle_run"
          THEN /\ lout' = Say(Running \o <<NL>>, uid)
               /\ nproc' = "running"
               /\ nopen' = TRUE
               /\ nout' = 0
               /\ clock' = 0
               /\ overdue' = FALSE
               /\ lstate' = "nested"
               /\ UNCHANGED colored
          ELSE /\ colored' = Reply(h, base)
               /\ lstate' = "print"
               /\ UNCHANGED <<lout, nestedVars>>
    /\ UNCHANGED <<regVars, lin, user, uid, lclosed, lterm, apiVars, bridgeVars, sideVars>>

\* lines 439-440: `if colored is not None: print(colored)`
TermRespond ==
    /\ lstate = "print"
    /\ lout' = IF colored.none THEN lout ELSE Say(colored.text \o <<NL>>, uid)
    /\ lstate' = "input"
    /\ UNCHANGED <<regVars, lin, user, uid, handler, colored, lclosed, lterm,
                   nestedVars, apiVars, bridgeVars, sideVars>>

\* the process dies of the signal stop() sent (or of the EOF on its stdin)
TermKilled ==
    /\ Alive
    /\ lterm
    /\ lstate' = "exited"
    /\ lin' = <<>>
    /\ UNCHANGED <<regVars, lout, user, uid, handler, colored, lclosed, lterm,
                   nestedVars, apiVars, bridgeVars, sideVars>>

\* ---- letsgo.py: run_command(), the nested process of /run ----
\* the nested process prints a line; readline() returns it, on_line prints it
NestedLine ==
    /\ lstate = "nested"
    /\ nproc = "running"
    /\ nopen
    /\ clock < Deadline
    /\ nout < MaxOut
    /\ nout' = nout + 1
    /\ lout' = Say(OutLine \o <<NL>>, uid)
    /\ UNCHANGED <<regVars, lstate, lin, user, uid, handler, colored, lclosed,
                   lterm, nproc, nopen, clock, overdue, apiVars, bridgeVars, sideVars>>

\* the nested process closes its output and goes on running
NestedClose ==
    /\ lstate = "nested"
    /\ nproc = "running"
    /\ nopen
    /\ clock < Deadline
    /\ nopen' = FALSE
    /\ UNCHANGED <<regVars, loopVars, nproc, nout, clock, overdue, apiVars,
                   bridgeVars, sideVars>>

\* the nested process ends
NestedExit ==
    /\ lstate \in {"nested", "wait"}
    /\ nproc = "running"
    /\ lstate = "nested" => clock < Deadline
    /\ nproc' = "exited"
    /\ nopen' = FALSE
    /\ UNCHANGED <<regVars, loopVars, nout, clock, overdue, apiVars, bridgeVars, sideVars>>

\* The time left to the deadline passes while the nested process runs (the
\* code only compares the time passed with the deadline); overdue: the
\* process was still running when the deadline came.
Tick ==
    /\ lstate \in {"nested", "wait"}
    /\ nproc = "running"
    /\ clock < Deadline
    /\ clock' = Deadline
    /\ overdue' = TRUE
    /\ UNCHANGED <<regVars, loopVars, nproc, nopen, nout, apiVars, bridgeVars, sideVars>>

\* lines 195-196 and 201: readline() returns b"", `break`, then
\* `await proc.wait()`
TermSawEOF ==
    /\ lstate = "nested"
    /\ ~nopen
    /\ lstate' = "wait"
    /\ UNCHANGED <<regVars, lin, lout, user, uid, handler, colored, lclosed, lterm,
                   nestedVars, apiVars, bridgeVars, sideVars>>

\* lines 184-194: the deadline has come inside the read loop: kill(),
\* communicate(), "command timed out"; handle_run() hands it on as colored
TermTimeout ==
    /\ lstate = "nested"
    /\ clock = Deadline
    /\ nproc' = IF nproc = "running" THEN "killed" ELSE nproc
    /\ nopen' = FALSE
    /\ colored' = Some(TimedOut)
    /\ lstate' = "print"
    /\ UNCHANGED <<regVars, lin, lout, user, uid, handler, lclosed, lterm,
                   nout, clock, overdue, apiVars, bridgeVars, sideVars>>

\* line 202: `"\n".join(output_lines)` of n lines
RECURSIVE JoinLines(_)
JoinLines(n) ==
    IF n = 0 THEN <<>>
    ELSE IF n = 1 THEN OutLine
    ELSE JoinLines(n - 1) \o <<NL>> \o OutLine

\* lines 201-205: wait() has returned; the reply is the joined output, which
\* handle_run() hands on as colored (it never equals the lines it printed)
TermNestedDone ==
    /\ lstate = "wait"
    /\ nproc = "exited"
    /\ colored' = Some(JoinLines(nout))
    /\ lstate' = "print"
    /\ UNCHANGED <<regVars, lin, lout, user, uid, handler, lclosed, lterm,
                   nestedVars, apiVars, bridgeVars, sideVars>>

\* ---- bridge.py: LetsGoProcess, one call at a time ----
\* the seven lines the caller sends
L_ping == N_ping
L_pingArgs == N_ping \o <<SP, "x", SP, "y">>
L_unknown == <<"/", "n", "o">>
L_exit == <<"e", "x", "i", "t">>
L_quit == <<SP, "Q", "u", "i", "T", SP>>
L_empty == <<>>
L_blank == <<SP>>
L_run == N_run \o <<SP, "s">>
Lines == {L_ping, L_pingArgs, L_unknown, L_exit, L_quit, L_empty, L_blank, L_run}

\* start(): a new child is spawned and `self.proc` is set to it, whatever
\* `self.proc` held; a child that was running goes on running without a
\* handle.  Then the drain begins.
ApiStart ==
    /\ dpc = "idle"
    /\ nspawn < MaxSpawn
    /\ nspawn' = nspawn + 1
    /\ orphans' = IF Alive THEN orphans + 1 ELSE orphans
    /\ handle' = TRUE
    /\ lstate' = "boot"
    /\ COMMANDS' = <<>>
    /\ COMMAND_HANDLERS' = NoHandlers
    /\ COMMAND_MAP' = NoHandlers
    /\ nload' = 0
    /\ lin' = <<>>
    /\ lout' = <<>>
    /\ user' = <<>>
    /\ uid' = 0
    /\ handler' = "none"
    /\ colored' = None
    /\ nproc' = "none"
    /\ nopen' = FALSE
    /\ nout' = 0
    /\ clock' = 0
    /\ overdue' = FALSE
    /\ lclosed' = FALSE
    /\ lterm' = FALSE
    /\ dpc' = "drain"
    /\ dbuf' = <<>>
    /\ dpos' = 0
    /\ dres' = NoOut
    /\ UNCHANGED <<plugins, dline, dlog, nsent, bridgeVars, sideVars>>

\* start(): create_subprocess_exec() raises
ApiSpawnFail ==
    /\ dpc = "idle"
    /\ nspawn < MaxSpawn
    /\ dres' = Raised("OSError")
    /\ UNCHANGED <<regVars, loopVars, nestedVars, handle, orphans, dpc, dline,
                   dbuf, dpos, dlog, nsent, nspawn, bridgeVars, sideVars>>

\* _read_until_prompt(): output has arrived
ApiDrain ==
    LET r == ReadLoop(dbuf, Unread) IN
    /\ dpc = "drain"
    /\ Unread # <<>>
    /\ dpos' = Len(lout) - Len(r[2])
    /\ dbuf' = r[1]
    /\ dpc' = IF PromptSeen(r[1]) THEN "idle" ELSE "drain"
    /\ UNCHANGED <<regVars, loopVars, nestedVars, handle, orphans, dline, dres,
                   dlog, nsent, nspawn, bridgeVars, sideVars>>

\* _read_until_prompt(): read(1) yields b"", the loop breaks
ApiDrainEOF ==
    /\ dpc = "drain"
    /\ Unread = <<>>
    /\ lstate = "exited"
    /\ dpc' = "idle"
    /\ UNCHANGED <<regVars, loopVars, nestedVars, handle, orphans, dline, dbuf,
                   dpos, dres, dlog, nsent, nspawn, bridgeVars, sideVars>>

\* the call for line has ended with result r
Ended(line, r) ==
    /\ dres' = r
    /\ dlog' = Append(dlog, <<line, r>>)
    /\ dpc' = "idle"

\* run(line) up to its first suspension: the check of line 80, the write and
\* drain() of lines 83-84 (the lock is free: one call at a time).  dline is
\* the line last written to the child.
ApiRun(line) ==
    /\ dpc = "idle"
    /\ nsent < MaxLines
    /\ nsent' = nsent + 1
    /\ IF ~handle
       THEN /\ Ended(<<>>, Raised("RuntimeError"))
            /\ UNCHANGED <<lin, dbuf, dline>>
       ELSE IF lclosed \/ ~Alive
       THEN /\ Ended(<<>>, Raised("ConnectionResetError"))
            /\ UNCHANGED <<lin, dbuf, dline>>
       ELSE /\ lin' = Append(lin, <<line, nsent + 1>>)
            /\ dline' = line
            /\ dbuf' = <<>>
            /\ dpc' = "read"
            /\ UNCHANGED <<dres, dlog>>
    /\ UNCHANGED <<regVars, lstate, lout, user, uid, handler, colored, lclosed,
                   lterm, nestedVars, handle, orphans, dpos, nspawn, bridgeVars, sideVars>>

\* run(): output has arrived, the read loop resumes
ApiRead ==
    LET r == ReadLoop(dbuf, Unread) IN
    /\ dpc = "read"
    /\ Unread # <<>>
    /\ dpos' = Len(lout) - Len(r[2])
    /\ dbuf' = r[1]
    /\ IF PromptSeen(r[1])
       THEN Ended(dline, Ok(Payload(r[1])))
       ELSE UNCHANGED <<dres, dlog, dpc>>
    /\ UNCHANGED <<regVars, loopVars, nestedVars, handle, orphans, dline, nsent,
                   nspawn, bridgeVars, sideVars>>

\* run(): read(1) yields b"", the loop breaks
ApiReadEOF ==
    /\ dpc = "read"
    /\ Unread = <<>>
    /\ lstate = "exited"
    /\ Ended(dline, Ok(Payload(dbuf)))
    /\ UNCHANGED <<regVars, loopVars, nestedVars, handle, orphans, dline, dbuf,
                   dpos, nsent, nspawn, bridgeVars, sideVars>>

\* stop() up to `await self.proc.wait()`; terminate() raises
\* ProcessLookupError for a child that has already exited
ApiStop ==
    /\ dpc = "idle"
    /\ IF ~handle
       THEN /\ dres' = NoOut
            /\ UNCHANGED <<lclosed, lterm, dpc>>
       ELSE IF ~Alive
       THEN /\ dres' = Raised("ProcessLookupError")
            /\ lclosed' = TRUE
            /\ UNCHANGED <<lterm, dpc>>
       ELSE /\ lclosed' = TRUE
            /\ lterm' = TRUE
            /\ dpc' = "stopwait"
            /\ dres' = NoOut
    /\ UNCHANGED <<regVars, lstate, lin, lout, user, uid, handler, colored,
                   nestedVars, handle, orphans, dline, dbuf, dpos, dlog, nsent,
                   nspawn, bridgeVars, sideVars>>

\* stop(): wait() has returned, `self.proc = None`
ApiStopDone ==
    /\ dpc = "stopwait"
    /\ lstate = "exited"
    /\ handle' = FALSE
    /\ dpc' = "idle"
    /\ UNCHANGED <<regVars, loopVars, nestedVars, orphans, dline, dbuf, dpos, dres,
                   dlog, nsent, nspawn, bridgeVars, sideVars>>

\* ---- the transport adapters of bridge.py ----
\* Each handler below is taken up to its call of run(): what run() does with
\* the text is the bridge above.  `reached` holds one record for every way a
\* command text got to run(): the adapter, whether the caller had passed a
\* check of the shared secret, whether the call had passed _check_rate.
API_TOKEN == "change-me"
Tokens == {API_TOKEN, "guess"}
RATE_LIMIT == 1
Clients == {"u1", "u2"}
NoFile == 0 - 1

Call(via, auth, rate) == [via |-> via, auth |-> auth, rate |-> rate]

\* _last_call is empty, the clock is past the first RATE_LIMIT seconds, no
\* socket is open and nothing is in UPLOAD_DIR
AdapterStart ==
    /\ now = RATE_LIMIT
    /\ _last_call = [c \in Clients |-> 0]
    /\ reached = {}
    /\ wsconn = "none"
    /\ upconn = "none"
    /\ upsize = 0
    /\ upfile = NoFile

\* time.time() moves on
Elapse ==
    /\ now < RATE_LIMIT + MaxTime
    /\ now' = now + 1
    /\ UNCHANGED <<_last_call, reached, wsconn, upconn, upsize, upfile>>
    /\ UNCHANGED <<bridgeVars, termVars, readVars>>

\* _check_rate(client) does not raise
RateOk(client) == ~(now - _last_call[client] < RATE_LIMIT)

\* POST /run: 401 on a wrong password, 429 from _check_rate, else run(cmd)
run_command(password, client) ==
    /\ IF password # API_TOKEN
       THEN UNCHANGED <<_last_call, reached>>
       ELSE IF ~RateOk(client)
       THEN UNCHANGED <<_last_call, reached>>
       ELSE /\ _last_call' = [_last_call EXCEPT ![client] = now]
            /\ reached' = reached \cup {Call("http", TRUE, TRUE)}
    /\ UNCHANGED <<now, wsconn, upconn, upsize, upfile>>
    /\ UNCHANGED <<bridgeVars, termVars, readVars>>

\* /ws up to accept(): close(1008) on a wrong token or a missing sid
ws_open(token, hasSid) ==
    /\ wsconn = "none"
    /\ wsconn' = IF token # API_TOKEN \/ ~hasSid THEN "none" ELSE "open"
    /\ UNCHANGED <<now, _last_call, reached, upconn, upsize, upfile>>
    /\ UNCHANGED <<bridgeVars, termVars, readVars>>

\* /ws: receive_text() hands over a text, proc.run(cmd) is called with it
ws_command ==
    /\ wsconn = "open"
    /\ reached' = reached \cup {Call("ws", TRUE, FALSE)}
    /\ UNCHANGED <<now, _last_call, wsconn, upconn, upsize, upfile>>
    /\ UNCHANGED <<bridgeVars, termVars, readVars>>

\* /ws: WebSocketDisconnect
ws_close ==
    /\ wsconn = "open"
    /\ wsconn' = "none"
    /\ UNCHANGED <<now, _last_call, reached, upconn, upsize, upfile>>
    /\ UNCHANGED <<bridgeVars, termVars, readVars>>

\* a Telegram message of any user: returns on an empty text, else run(cmd)
handle_telegram(hasText) ==
    /\ reached' = IF hasText
                  THEN reached \cup {Call("telegram", FALSE, FALSE)}
                  ELSE reached
    /\ UNCHANGED <<now, _last_call, wsconn, upconn, upsize, upfile>>
    /\ UNCHANGED <<bridgeVars, termVars, readVars>>

\* the second step of the /run conversation of the bot
run_execute(hasText) ==
    /\ reached' = IF hasText
                  THEN reached \cup {Call("conversation", FALSE, FALSE)}
                  ELSE reached
    /\ UNCHANGED <<now, _last_call, wsconn, upconn, upsize, upfile>>
    /\ UNCHANGED <<bridgeVars, termVars, readVars>>

\* a press on an inline button: run(query.data or "")
handle_callback ==
    /\ reached' = reached \cup {Call("callback", FALSE, FALSE)}
    /\ UNCHANGED <<now, _last_call, wsconn, upconn, upsize, upfile>>
    /\ UNCHANGED <<bridgeVars, termVars, readVars>>

\* WebSocket /upload up to open(path, "wb"): close(1008) on a wrong token or
\* a missing name, else the file is created or cut to nothing
upload_ws_open(token, hasName) ==
    /\ upconn # "open"
    /\ upsize' = 0
    /\ IF token # API_TOKEN \/ ~hasName
       THEN upconn' = "closed" /\ UNCHANGED upfile
       ELSE upconn' = "open" /\ upfile' = 0
    /\ UNCHANGED <<now, _last_call, reached, wsconn>>
    /\ UNCHANGED <<bridgeVars, termVars, readVars>>

\* WebSocket /upload: receive_bytes() hands over n bytes, fh.write(data)
upload_ws_receive(n) ==
    /\ upconn = "open"
    /\ upsize + n <= MaxUpload
    /\ upsize' = upsize + n
    /\ upfile' = upfile + n
    /\ UNCHANGED <<now, _last_call, reached, wsconn, upconn>>
    /\ UNCHANGED <<bridgeVars, termVars, readVars>>

\* WebSocket /upload: WebSocketDisconnect leaves `with`, the file is closed
upload_ws_disconnect ==
    /\ upconn = "open"
    /\ upconn' = "gone"
    /\ UNCHANGED <<now, _last_call, reached, wsconn, upsize, upfile>>
    /\ UNCHANGED <<bridgeVars, termVars, readVars>>

AdapterNext ==
    \/ Elapse
    \/ \E password \in Tokens, client \in Clients : run_command(password, client)
    \/ \E token \in Tokens, hasSid \in BOOLEAN : ws_open(token, hasSid)
    \/ ws_command
    \/ ws_close
    \/ \E hasText \in BOOLEAN : handle_telegram(hasText)
    \/ \E hasText \in BOOLEAN : run_execute(hasText)
    \/ handle_callback
    \/ \E token \in Tokens, hasName \in BOOLEAN : upload_ws_open(token, hasName)
    \/ \E n \in 1..MaxUpload : upload_ws_receive(n)
    \/ upload_ws_disconnect

\* ---- one framed read, the child's bytes arriving in any pieces ----
\* `stream` is all the child writes before it exits, `fed` how much of it has
\* reached the StreamReader, `eof` whether the pipe has been closed behind it;
\* rd counts the bytes the read loop has taken, rbuf is its buffer.
StreamChars == {"a", ">", SP, NL}
Streams ==
    UNION {[1..n -> StreamChars \X {1}] : n \in 0..MaxStream}

ReadStart(x) ==
    /\ stream = x
    /\ fed = 0
    /\ eof = FALSE
    /\ rd = 0
    /\ rbuf = <<>>
    /\ rdone = FALSE

\* the child's next n bytes come through the pipe
Feed(n) ==
    /\ fed + n <= Len(stream)
    /\ fed' = fed + n
    /\ UNCHANGED <<stream, eof, rd, rbuf, rdone>>
    /\ UNCHANGED <<bridgeVars, termVars, adapterVars>>

\* the child has written everything and is gone
FeedEOF ==
    /\ fed = Len(stream)
    /\ ~eof
    /\ eof' = TRUE
    /\ UNCHANGED <<stream, fed, rd, rbuf, rdone>>
    /\ UNCHANGED <<bridgeVars, termVars, adapterVars>>

\* the read loop wakes up with bytes in the stream
ReadSome ==
    LET r == ReadLoop(rbuf, SubSeq(stream, rd + 1, fed)) IN
    /\ ~rdone
    /\ rd < fed
    /\ rbuf' = r[1]
    /\ rd' = fed - Len(r[2])
    /\ rdone' = PromptSeen(r[1])
    /\ UNCHANGED <<stream, fed, eof>>
    /\ UNCHANGED <<bridgeVars, termVars, adapterVars>>

\* read(1) yields b"": `if not chunk: break`
ReadEnd ==
    /\ ~rdone
    /\ rd = fed
    /\ eof
    /\ rdone' = TRUE
    /\ UNCHANGED <<stream, fed, eof, rd, rbuf>>
    /\ UNCHANGED <<bridgeVars, termVars, adapterVars>>

\* ---- the bridge: every connection and every child ----
Init == BridgeInit /\ TermStart(<<"ping">>) /\ AdapterStart /\ ReadStart(<<>>)

Next ==
    \/ \E t \in Tasks, k \in Sids, tokenOk \in BOOLEAN : Connect(t, k, tokenOk)
    \/ \E t \in Tasks : SpawnOk(t)
    \/ \E t \in Tasks : SpawnFail(t)
    \/ \E t \in Tasks : DrainAvail(t)
    \/ \E t \in Tasks : DrainEOF(t)
    \/ \E t \in Tasks, c \in Cmds : Receive(t, c)
    \/ \E t \in Tasks : WakeLock(t)
    \/ \E t \in Tasks : ReadAvail(t)
    \/ \E t \in Tasks : ReadEOF(t)
    \/ \E t \in Tasks : SendOk(t)
    \/ \E t \in Tasks : SendFail(t)
    \/ \E t \in Tasks : Disconnect(t)
    \/ \E t \in Tasks : StopWaitDone(t)
    \/ \E s \in Sups : ChildBoot(s)
    \/ \E s \in Sups : ChildBootFail(s)
    \/ \E s \in Sups : ChildTake(s)
    \/ \E s \in Sups : ChildRespond(s)
    \/ \E s \in Sups : ChildPrompt(s)
    \/ \E s \in Sups : ChildQuit(s)
    \/ \E s \in Sups : ChildTerminate(s)

Spec == Init /\ [][Next]_vars

\* ---- the bridge under fair scheduling ----
\* the steps of child s: the operating system runs the process on
ChildStep(s) ==
    \/ ChildBoot(s) \/ ChildBootFail(s) \/ ChildTake(s) \/ ChildRespond(s)
    \/ ChildPrompt(s) \/ ChildQuit(s) \/ ChildTerminate(s)

\* the event loop resumes the coroutine of task t: its lock is free, its
\* stream has ended, the child it waits for has exited
LoopStep(t) == WakeLock(t) \/ ReadEOF(t) \/ DrainEOF(t) \/ StopWaitDone(t)

\* the event loop resumes a read(1) of task t: bytes are on the stream
ReadStep(t) == ReadAvail(t) \/ DrainAvail(t)

\* the enabling condition of ReadStep(t): a read is suspended and bytes wait
ReadPending(t) == pc[t] \in {"drain", "read"} /\ Pipe(sup[t]) # <<>>

\* a suspended read has not seen the prompt: with a byte on the stream its
\* next step takes the byte, so ReadPending(t) is ENABLED <<ReadStep(t)>>_vars
ReadStepGoesOn == \A t \in Tasks : pc[t] \in {"drain", "read"} => ~PromptSeen(buf[t])

\* WF_vars(ReadStep(t)), with ENABLED <<ReadStep(t)>>_vars written out
ReadFair(t) == []<>~ReadPending(t) \/ []<><<ReadStep(t)>>_vars

\* The event loop resumes every coroutine that can go on, and every child
\* runs on: it answers each line with its prompt or by ending.  Clients are
\* free to send nothing and to stay connected.
FairSpec ==
    /\ Spec
    /\ \A t \in Tasks : WF_vars(LoopStep(t)) /\ ReadFair(t)
    /\ \A s \in Sups : WF_vars(ChildStep(s))

\* the child that may stop for ever at any point
Hung == 1

\* as FairSpec, but child Hung is free never to take another step
HungSpec ==
    /\ Spec
    /\ \A t \in Tasks : WF_vars(LoopStep(t)) /\ ReadFair(t)
    /\ \A s \in Sups \ {Hung} : WF_vars(ChildStep(s))

\* ---- the bridge, with tasks that can be cancelled ----
CancelNext ==
    \/ Next
    \/ \E t \in Tasks : CancelRun(t)

CancelSpec == Init /\ [][CancelNext]_vars

\* ---- the adapters on their own ----
AdapterSpec == Init /\ [][AdapterNext]_vars

\* ---- one framed read on its own ----
ReadInit ==
    /\ BridgeInit /\ TermStart(<<"ping">>) /\ AdapterStart
    /\ \E x \in Streams : ReadStart(x)

ReadNext ==
    \/ \E n \in 1..MaxStream : Feed(n)
    \/ FeedEOF
    \/ ReadSome
    \/ ReadEnd

ReadSpec == ReadInit /\ [][ReadNext]_vars

TypeOK ==
    /\ pc \in [Tasks -> {"idle", "spawn", "drain", "recv", "waitlock", "read",
                         "send", "stopwait", "done"}]
    /\ sup \in [Tasks -> Sups \cup {NoSup}]
    /\ sessions \in [Sids -> Sups \cup {NoSup}]
    /\ lock \in [Sups -> Tasks \cup {0}]
    /\ nrun \in 0..MaxRuns


\* ---- one letsgo.py process and its Supervisor ----
TermInit ==
    /\ BridgeInit /\ AdapterStart /\ ReadStart(<<>>)
    /\ \E p \in PluginDirs : TermStart(p)

TermNext ==
    \/ ApiStart
    \/ ApiSpawnFail
    \/ ApiDrain
    \/ ApiDrainEOF
    \/ \E line \in Lines : ApiRun(line)
    \/ ApiRead
    \/ ApiReadEOF
    \/ ApiStop
    \/ ApiStopDone
    \/ TermRegisterCore
    \/ TermLoadPlugin
    \/ TermHeader
    \/ TermPrompt
    \/ TermTake
    \/ TermQuit
    \/ TermNoToken
    \/ TermDispatch
    \/ TermRespond
    \/ TermKilled
    \/ NestedLine
    \/ NestedClose
    \/ NestedExit
    \/ Tick
    \/ TermSawEOF
    \/ TermTimeout
    \/ TermNestedDone

TermSpec == TermInit /\ [][TermNext]_vars

\* ---- the claims ----
InCycle(s) == {t \in Tasks : sup[t] = s /\ pc[t] = "read"}
Waiting(s) == {t \in Tasks : sup[t] = s /\ pc[t] = "waitlock"}
Ids(b) == {b[i][2] : i \in 1..Len(b)}

\* C1: on every Supervisor at most one run() caller is between writing its
\* command and the end of its read; that caller holds the lock, every other
\* caller of a run() in progress waits in the lock's queue, and the bytes of a
\* returned payload all come from the response to one command.
C1_Serialized ==
    \A s \in Sups :
        /\ Cardinality(InCycle(s)) <= 1
        /\ \A t \in InCycle(s) : lock[s] = t
        /\ \A t \in Waiting(s) : \E i \in 1..Len(waiters[s]) : waiters[s][i] = t
        /\ \A t \in Tasks : sup[t] = s /\ pc[t] = "send"
                => Cardinality(Ids(out[t].payload)) <= 1

\* a caller is inside its cycle while another one waits for the lock
C1_Witness ==
    \E s \in Sups : InCycle(s) # {} /\ Waiting(s) # {}

\* the calls whose command was written to child s and whose response has not
\* been read to its end: the line is still in stdin, or the child is at work
\* on it, or bytes of its response are unread
Pending(s) ==
    {stdin[s][i][2] : i \in 1..Len(stdin[s])}
        \cup (IF cstate[s] \in {"exec", "resp"} THEN {cur[s][2]} ELSE {})
        \cup (Ids(Pipe(s)) \ {0})

Contains(x, sub) ==
    \E i \in 0..(Len(x) - Len(sub)) : SubSeq(x, i + 1, i + Len(sub)) = sub

\* the child has been sent a command whose output text holds the prompt bytes
Collided(s) ==
    \E i \in 1..Len(hist[s]) :
        hist[s][i][1] = "wr" /\ Contains(Output(hist[s][i][3]), PromptBytes)

\* C2 as stated: never more than one pending command on a started Supervisor,
\* whatever the child prints.
C2_OnePendingAnyOutput ==
    \A s \in Sups : proc[s] => Cardinality(Pending(s)) <= 1

\* C2: as long as no command sent to the child printed the prompt bytes
\* inside its output, at most one command is pending on the Supervisor.
C2_OnePending ==
    \A s \in Sups : proc[s] /\ ~Collided(s) => Cardinality(Pending(s)) <= 1

\* a second command is pending after the first call has returned
C2_Witness ==
    \E s \in Sups :
        /\ proc[s] /\ ~Collided(s)
        /\ Acquired(s) = 2
        /\ Cardinality(Pending(s)) = 1

\* C3: on every Supervisor the commands are written in the order their calls
\* took the lock, the child reads them in the order written, and a call has
\* left the lock before the next command is written.
C3_ProgramOrder ==
    \A s \in Sups :
        LET h == hist[s] IN
        \A j \in 1..Len(h) :
            /\ h[j][1] = "ex" =>
                  /\ \E i \in 1..(j - 1) : h[i] = <<"wr", h[j][2], h[j][3]>>
                  /\ \A i \in 1..(j - 1) : h[i][1] = "ex" => h[i][2] < h[j][2]
            /\ h[j][1] = "wr" =>
                  \A i \in 1..(j - 1) :
                      h[i][1] = "wr" =>
                          /\ h[i][2] < h[j][2]
                          /\ \E k \in (i + 1)..(j - 1) :
                                 h[k] = <<"ret", h[i][2], h[i][3]>>

\* two commands were written to one child and it has read the second
C3_Witness ==
    \E s \in Sups :
        \E i, j \in 1..Len(hist[s]) :
            /\ i < j
            /\ hist[s][i][1] = "wr"
            /\ hist[s][j][1] = "ex"
            /\ hist[s][j][2] = 2


\* the handler of the connection has entered its try block
Connected(t) == pc[t] \in {"recv", "waitlock", "read", "send", "stopwait"}

\* C4: two connections never both have a child process of their own in the
\* making for the same session key.
C4_OneSpawnPerKey ==
    \A t1, t2 \in Tasks :
        t1 # t2 /\ pc[t1] = "drain" /\ pc[t2] = "drain" => sidOf[t1] # sidOf[t2]

\* C5: the Supervisor that the registry hands to a connection for a key it
\* already holds has a process handle and a live child.
C5_GetOrCreateRestarts ==
    [][\A t \in Tasks :
          pc[t] = "idle" /\ pc'[t] = "recv"
              => proc'[sup'[t]] /\ cstate'[sup'[t]] # "exited"]_vars

\* C6: a new Supervisor is handed out with its handle set and its banner read
\* through the first prompt, the first run() of the connection that made it
\* raises nothing, and no payload holds a banner byte.
C6_ReadyOnHandOut ==
    [][\A t \in Tasks :
          /\ pc[t] = "drain" /\ pc'[t] = "recv"
                => proc'[t] /\ EndsWith(Chars(buf'[t]), PromptBytes)
          /\ (/\ sup[t] = t /\ pc[t] = "recv" /\ hist[t] = <<>>
              /\ nrun' = nrun + 1 /\ pc'[t] # "recv")
                => pc'[t] \in {"read", "waitlock"}
          /\ pc'[t] = "send" => 0 \notin Ids(out'[t].payload)]_vars

\* C7: whenever stop() ends, it has raised nothing and the handle is empty.
C7_StopIdempotent ==
    [][\A t \in Tasks :
          Connected(t) /\ pc'[t] = "done"
              => exc'[t] # "ProcessLookupError" /\ ~proc'[sup[t]]]_vars

\* C8: when the handler of a connection ends, the registry holds no entry
\* for its session key.
C8_ReleaseRemovesMapping ==
    [][\A t \in Tasks :
          Connected(t) /\ pc'[t] = "done"
              => sessions'[sidOf[t]] = NoSup]_vars

\* C9: a run() called on a Supervisor without a process handle raises the
\* "process not started" RuntimeError, writes to no stdin and neither takes
\* the lock nor joins its queue.
C9_NotStarted ==
    [][\A t \in Tasks :
          (/\ pc[t] = "recv" /\ ~proc[sup[t]]
           /\ nrun' = nrun + 1 /\ pc'[t] # "recv")
              => /\ out'[t] = Raised("RuntimeError")
                 /\ stdin' = stdin
                 /\ lock' = lock
                 /\ waiters' = waiters
                 /\ hist' = hist]_vars

\* a run() has failed with "process not started"
C9_Witness ==
    \E t \in Tasks : pc[t] = "done" /\ out[t] = Raised("RuntimeError")

\* b without its leading and trailing white space
NonSpace(b) == {i \in 1..Len(b) : ~IsSpace(b[i][1])}
Trimmed(b) ==
    IF NonSpace(b) = {}
    THEN <<>>
    ELSE LET lo == CHOOSE i \in NonSpace(b) : \A j \in NonSpace(b) : i <= j
             hi == CHOOSE i \in NonSpace(b) : \A j \in NonSpace(b) : j <= i
         IN  SubSeq(b, lo, hi)

\* The call of task t has returned a text.  Its buffer is the stretch of the
\* child's output that was unread when the command was written, it ended at
\* the first point where it ends with the prompt bytes (or at end of stream),
\* the payload is the buffer without those bytes and without surrounding
\* white space, and the prompt bytes do not occur in the payload.
Framed(t) ==
    LET s == sup[t]
        b == buf[t]
        n == Len(b)
    IN  /\ out[t].kind = "ok"
        /\ b = SubSeq(wrote[s], start[t] + 1, start[t] + n)
        /\ \A m \in 1..(n - 1) : ~EndsWith(Chars(SubSeq(b, 1, m)), PromptBytes)
        /\ EndsWith(Chars(b), PromptBytes)
              => out[t].payload = Trimmed(SubSeq(b, 1, n - Len(PromptBytes)))
        /\ ~Contains(Chars(out[t].payload), PromptBytes)

\* C10 as stated: the bytes run() frames are bytes the child wrote after the
\* command, in answer to it.
C10_BytesAfterCommand ==
    \A t \in Tasks : pc[t] = "send" => Framed(t) /\ Ids(buf[t]) \subseteq {rid[t]}

\* C10: run() returns the bytes it read from the child's stdout after writing
\* the command, up to the first point where they end with the prompt bytes,
\* without those bytes and trimmed; the prompt bytes are never in a payload.
C10_FramedRead ==
    \A t \in Tasks : pc[t] = "send" => Framed(t)

\* a call has returned a text that the child printed before its command
C10_Witness ==
    \E t \in Tasks :
        /\ pc[t] = "send"
        /\ stale[t] > 0
        /\ EndsWith(Chars(buf[t]), PromptBytes)
        /\ out[t].payload # <<>>

\* the read loop of the call of task t ends in this step at end of stream,
\* before its buffer ends with the prompt bytes
EndsAtEOF(t) == pc[t] = "read" /\ pc'[t] # "read" /\ ~PromptSeen(buf'[t])

\* C11: when a read of run() yields zero bytes before the prompt has been
\* seen, the bytes read so far are not returned and the Supervisor's process
\* handle becomes empty.
C11_ClosedStreamDiscards ==
    [][\A t \in Tasks :
          EndsAtEOF(t) => out'[t].payload = <<>> /\ ~proc'[sup[t]]]_vars

\* C12: when the child's output ends before the prompt during the read of
\* run(), run() raises nothing: it returns the bytes the child wrote since the
\* read began, trimmed (an empty text when there are none).
C12_ClosedStreamReturns ==
    [][\A t \in Tasks :
          EndsAtEOF(t) =>
              /\ pc'[t] = "send"
              /\ buf'[t] = SubSeq(wrote[sup[t]], start[t] + 1, Len(wrote[sup[t]]))
              /\ out'[t] = Ok(Trimmed(buf'[t]))]_vars

\* a call has returned a text that the child left without a prompt behind it
C12_Witness ==
    \E t \in Tasks :
        /\ pc[t] = "send"
        /\ ~PromptSeen(buf[t])
        /\ cstate[sup[t]] = "exited"
        /\ out[t].payload # <<>>

\* C16: nothing but "process not started" ever leaves run(), and nothing but
\* that or a failure to spawn ever leaves the core.
C16_OnlySpawnAndNotStarted ==
    \A t \in Tasks :
        /\ out[t].kind = "raise" => out[t].err = "RuntimeError"
        /\ exc[t] \in {"none", "OSError", "RuntimeError"}

\* ---- claims about one letsgo.py process and its Supervisor ----
\* the steps of the letsgo.py process: the operating system runs it on
TermSteps ==
    \/ TermRegisterCore \/ TermLoadPlugin \/ TermHeader \/ TermPrompt
    \/ TermTake \/ TermQuit \/ TermNoToken \/ TermDispatch \/ TermRespond
    \/ TermKilled \/ TermSawEOF \/ TermTimeout \/ TermNestedDone

\* a read(1) of the Supervisor that is resumed by bytes on the stream
ReadSteps == ApiDrain \/ ApiRead

\* a read(1) that is resumed by the end of the stream, and the wait() of stop()
EofSteps == ApiDrainEOF \/ ApiReadEOF \/ ApiStopDone

\* the enabling condition of ReadSteps: a read is suspended and bytes wait
ReadReady == dpc \in {"drain", "read"} /\ Unread # <<>>

\* a suspended read has not seen the prompt: with a byte on the stream its
\* next step takes the byte, so ReadReady is ENABLED <<ReadSteps>>_vars
ReadGoesOn == dpc \in {"drain", "read"} => ~PromptSeen(dbuf)

\* The process runs on, and the event loop resumes a suspended read whose
\* stream has bytes or has ended.  The last conjunct is WF_vars(ReadSteps)
\* with ENABLED <<ReadSteps>>_vars written out as ReadReady.  The caller is
\* free to make no further call, a nested command is free to run for ever.
TermFairSpec ==
    /\ TermSpec
    /\ WF_vars(TermSteps)
    /\ WF_vars(EofSteps)
    /\ ([]<>~ReadReady \/ []<><<ReadSteps>>_vars)

\* a and b are the same letter in either case
SameLetter(a, b) ==
    \/ a = b
    \/ \E i \in 1..Len(UpperCase) : {a, b} = {UpperCase[i], LowerCase[i]}

\* line is word in any letter case between runs of white space
IsWord(line, word) ==
    \E k \in 0..Len(line) :
        /\ k + Len(word) <= Len(line)
        /\ \A i \in 1..k : IsSpace(line[i])
        /\ \A i \in 1..Len(word) : SameLetter(line[k + i], word[i])
        /\ \A i \in (k + Len(word) + 1)..Len(line) : IsSpace(line[i])

QuitLine(line) ==
    IsWord(line, <<"e", "x", "i", "t">>) \/ IsWord(line, <<"q", "u", "i", "t">>)

\* C13: on exit or quit in any letter case, with or without white space
\* around it, the loop ends and writes neither a response nor a prompt for
\* that line; the run() that sent the line raises nothing, and it returns.
C13_QuitEndsLoop ==
    /\ [][lstate = "line" /\ QuitLine(user)
            => lstate' = "exited" /\ lout' = lout]_vars
    /\ [](\A i \in 1..Len(dlog) :
            QuitLine(dlog[i][1]) => dlog[i][2].kind = "ok")
    /\ ((dpc = "read" /\ QuitLine(dline)) ~> (dpc = "idle"))

\* the call that sent " QuiT " has returned an empty text, the loop has ended
C13_Witness ==
    /\ lstate = "exited"
    /\ \E i \in 1..Len(dlog) : dlog[i] = <<L_quit, Ok(<<>>)>>

\* how often sub occurs in x
Occurrences(x, sub) ==
    Cardinality({i \in 0..(Len(x) - Len(sub)) : SubSeq(x, i + 1, i + Len(sub)) = sub})

\* the bytes on stdout that belong to line number id
BytesOf(b, id) == SelectSeq(b, LAMBDA x : x[2] = id)

\* C14: a line that is not exit or quit never ends the loop, and when the
\* loop is back at its input the line has been answered with one prompt.
C14_EveryLineAnswered ==
    [][/\ (lstate = "line" /\ ~QuitLine(user) /\ ~lterm) => lstate' # "exited"
       /\ (lstate = "input" /\ lstate' = "idle" /\ uid > 0)
             => Occurrences(Chars(BytesOf(lout', uid)), PromptBytes) = 1]_vars

\* C15: a nested process of /run that is still running at the deadline is
\* killed and the handler returns the "command timed out" text; the run()
\* that sent the line returns a text that holds it.
C15_DeadlineKills ==
    [][/\ (lstate \in {"nested", "wait"} /\ lstate' = "print" /\ overdue')
             => nproc' = "killed" /\ colored' = Some(TimedOut)
       /\ (/\ dpc = "read" /\ dpc' = "idle"
           /\ uid = nsent /\ ~NoToken(user) /\ FirstToken(user) = N_run
           /\ handler = "handle_run" /\ overdue)
             => /\ dres'.kind = "ok"
                /\ Contains(Chars(dres'.payload), TimedOut)]_vars

\* C17: no child runs without the handle of its Supervisor.
C17_OneChild == orphans = 0 /\ (Alive => handle)

\* word is the first stretch of line without white space
HasFirstToken(line, word) ==
    \E k \in 0..Len(line) :
        /\ word # <<>>
        /\ k + Len(word) <= Len(line)
        /\ \A i \in 1..k : IsSpace(line[i])
        /\ SubSeq(line, k + 1, k + Len(word)) = word
        /\ \A i \in 1..Len(word) : ~IsSpace(word[i])
        /\ k + Len(word) < Len(line) => IsSpace(line[k + Len(word) + 1])

IsRegistered(n) == n \in Names /\ COMMAND_HANDLERS[n] # "none"

\* C18: the handler called for a line is the one registered under its first
\* token, whatever follows the token; a line whose first token is not
\* registered gets the unknown-command text.  "/ping x y" is answered with
\* pong when the ping plugin is there, "/no" with the unknown-command text.
C18_FirstTokenResolves ==
    /\ [][(lstate = "line" /\ lstate' \in {"print", "nested"}) =>
            /\ \A n \in Names :
                   HasFirstToken(user, n) => handler' = COMMAND_HANDLERS[n]
            /\ (\A n \in Names : HasFirstToken(user, n) => ~IsRegistered(n))
                   => /\ handler' = "none"
                      /\ \E i, j \in 1..Len(user) :
                             /\ HasFirstToken(user, SubSeq(user, i, j))
                             /\ colored' = Some(UnknownText(SubSeq(user, i, j)))]_vars
    /\ [](\A i \in 1..Len(dlog) :
            /\ (dlog[i][1] = L_pingArgs /\ dlog[i][2].kind = "ok")
                  => Chars(dlog[i][2].payload) =
                        IF "ping" \in Range(plugins) THEN Pong
                        ELSE UnknownText(N_ping)
            /\ (dlog[i][1] = L_unknown /\ dlog[i][2].kind = "ok")
                  => Chars(dlog[i][2].payload) = UnknownText(L_unknown))

\* "/ping x y" has been answered with pong and "/no" with the fallback
C18_Witness ==
    /\ Len(dlog) = 2
    /\ dlog[1][1] = L_pingArgs /\ Chars(dlog[1][2].payload) = Pong
    /\ dlog[2][1] = L_unknown
    /\ Chars(dlog[2][2].payload) = UnknownText(L_unknown)

\* C19: a plugin that fails to import does not end startup: the loading goes
\* on, and when the header is printed the core commands and the commands of
\* the plugins that did import are registered.
C19_PluginFailureTolerated ==
    [][/\ lstate = "load" => lstate' \in {"load", "input"}
       /\ (lstate = "load" /\ lstate' = "input") =>
             /\ \A i \in 1..Len(CoreNames) : IsRegistered(CoreNames[i])
             /\ \A i \in 1..Len(plugins) :
                    ~ImportRaises(plugins[i]) => IsRegistered(PluginName(plugins[i]))]_vars

\* the registrations made so far, oldest first, as <<name, handler>>
Registrations ==
    [i \in 1..Len(CoreNames) |-> <<CoreNames[i], CoreHandler(CoreNames[i])>>]
        \o [i \in 1..(nload - 1) |-> <<PluginName(plugins[i]), PluginHandler(plugins[i])>>]

\* C20: once the core commands are registered, every registered name is in
\* the registry once and resolves to the handler registered last for it.
C20_NamesUnique ==
    lstate \notin {"none", "boot"} =>
        \A n \in Names :
            LET regs == {i \in 1..Len(Registrations) : Registrations[i][1] = n}
                last == CHOOSE i \in regs : \A j \in regs : j <= i
            IN  regs # {} =>
                    /\ Cardinality({i \in 1..Len(COMMANDS) : COMMANDS[i] = n}) = 1
                    /\ COMMAND_HANDLERS[n] = Registrations[last][2]

\* ---- /help ----
\* the characters of command names in the order Python compares them
Alphabet == <<"/">> \o LowerCase

CharRank(c) == CHOOSE i \in 1..Len(Alphabet) : Alphabet[i] = c

\* a < b as Python compares two str
RECURSIVE LessText(_, _)
LessText(a, b) ==
    IF b = <<>> THEN FALSE
    ELSE IF a = <<>> THEN TRUE
    ELSE IF a[1] # b[1] THEN CharRank(a[1]) < CharRank(b[1])
    ELSE LessText(Tail(a), Tail(b))

\* sorted(S)
RECURSIVE Sorted(_)
Sorted(S) ==
    IF S = {} THEN <<>>
    ELSE LET m == CHOOSE x \in S : \A y \in S \ {x} : LessText(x, y)
         IN  <<m>> \o Sorted(S \ {m})

\* handle_help(): the names of the lines of its reply, `sorted(COMMAND_MAP.items())`
HelpNames == Sorted({n \in Names : COMMAND_MAP[n] # "none"})

\* main(): the names for which `COMMAND_HANDLERS.get(base)` finds a handler
Resolvable == {n \in Names : COMMAND_HANDLERS[n] # "none"}

\* C30: once startup is over, /help lists the names in ascending order, and
\* the names it lists are the names that resolve to a handler.
C30_HelpListsRegistry ==
    lstate \notin {"none", "boot", "load", "exited"} =>
        /\ \A i \in 1..(Len(HelpNames) - 1) : LessText(HelpNames[i], HelpNames[i + 1])
        /\ Range(HelpNames) = Resolvable

\* ---- the bridge: payloads, closing connections, readers ----
\* the bytes child s has printed for the command of call id, without the
\* prompt that ends them and without surrounding white space
Produced(s, id) ==
    LET b == SelectSeq(wrote[s], LAMBDA x : x[2] = id)
    IN  Trimmed(IF EndsWith(Chars(b), PromptBytes)
                THEN SubSeq(b, 1, Len(b) - Len(PromptBytes))
                ELSE b)

\* C24 as stated: the text a run() returns is what the child printed for the
\* command of that run() and nothing else, whatever the commands print.
C24_PayloadOfItsCommandAnyOutput ==
    \A t \in Tasks :
        pc[t] = "send" /\ out[t].kind = "ok"
            => out[t].payload = Produced(sup[t], rid[t])

\* C24: as long as no command sent to the child printed the prompt bytes
\* inside its output, the text a run() returns is what the child printed for
\* the command of that run() and nothing else.
C24_PayloadOfItsCommand ==
    \A t \in Tasks :
        pc[t] = "send" /\ out[t].kind = "ok" /\ ~Collided(sup[t])
            => out[t].payload = Produced(sup[t], rid[t])

\* the second run() on a Supervisor has returned the text of its command
C24_Witness ==
    \E t \in Tasks :
        /\ pc[t] = "send" /\ out[t].kind = "ok" /\ ~Collided(sup[t])
        /\ rid[t] = 2
        /\ out[t].payload # <<>>

\* the handler of the connection is inside its loop: it has not begun stop()
Open(t) == pc[t] \in {"recv", "waitlock", "read", "send"}

\* C25: as long as a connection is open, nobody has closed the stdin of its
\* Supervisor's child or sent it the signal, and the registry still holds an
\* entry for its session key.
C25_OpenConnectionKeepsChild ==
    \A t \in Tasks :
        Open(t) => /\ ~closed[sup[t]]
                   /\ ~term[sup[t]]
                   /\ sessions[sidOf[t]] # NoSup

\* the coroutines that read the stdout of the child of Supervisor s
Readers(s) == {t \in Tasks : sup[t] = s /\ pc[t] \in {"drain", "read"}}

C27_LockFreeWhenNoRun ==
    \A s \in Sups :
        lock[s] # 0 => sup[lock[s]] = s /\ pc[lock[s]] = "read"

\* a caller was cancelled inside its read while another waited for the lock,
\* and the lock is free
C27_Witness ==
    \E t \in Tasks :
        /\ out[t] = Raised("CancelledError")
        /\ \E i \in 1..Len(hist[sup[t]]) : hist[sup[t]][i][1] = "wr"
        /\ waiters[sup[t]] # <<>>
        /\ lock[sup[t]] = 0

\* task t is inside a run(): it waits for the lock or for the child's bytes
InRun(t) == pc[t] \in {"waitlock", "read"}

\* C23: whatever the child of one session does, a run() on the Supervisor
\* of another session comes to its end.
C23_OtherSessionsGoOn ==
    \A t \in Tasks :
        (InRun(t) /\ sup[t] # Hung) ~> ~InRun(t)

\* a run() on one session has returned a text while a run() that began
\* earlier on another session still waits for its child
C23_Witness ==
    \E t, u \in Tasks :
        /\ sidOf[t] # sidOf[u]
        /\ sup[t] = Hung /\ pc[t] = "read" /\ cstate[Hung] = "exec"
        /\ sup[u] # Hung /\ pc[u] = "send" /\ out[u].kind = "ok"

C21_RunOnlyAfterAuthAndRate ==
    \A r \in reached : r.auth /\ r.rate

\* C22: once more than MAX_UPLOAD_SIZE bytes have come in on the /upload
\* WebSocket, the server has closed the connection and there is no file at the
\* destination path.
MAX_UPLOAD_SIZE == 5

C22_UploadBounded ==
    upsize > MAX_UPLOAD_SIZE => upconn = "closed" /\ upfile = NoFile

\* what a framed read of all of x at once keeps: x up to the end of the first
\* prompt in it, or all of x when there is none
PromptEnds(x) == {n \in 1..Len(x) : PromptSeen(SubSeq(x, 1, n))}

Frame(x) ==
    IF PromptEnds(x) = {}
    THEN x
    ELSE SubSeq(x, 1, CHOOSE n \in PromptEnds(x) : \A m \in PromptEnds(x) : n <= m)

\* C26: however the child's bytes are cut into reads, a finished framed read
\* holds the bytes up to the end of the first sentinel (all of them when the
\* stream ends without one), has taken exactly those bytes from the stream,
\* and so yields the payload of the same bytes read in one piece.
C26_ReadIgnoresChunking ==
    rdone =>
        /\ rbuf = Frame(stream)
        /\ rd = Len(Frame(stream))
        /\ Payload(rbuf) = Payload(ReadLoop(<<>>, stream)[1])

\* C26 witness: a read has ended on a sentinel with a payload in front of it,
\* and bytes that came with it are still in the stream.
C26_Witness ==
    /\ rdone /\ PromptSeen(rbuf)
    /\ rd < fed
    /\ Payload(rbuf) # <<>>

====
